---- MODULE Spec2Model ----
(***************************************************************************)
(* Wayback Machine dashboard (src/wayback-url-tool/wayback_urls.py).       *)
(*                                                                         *)
(* Strings that the program parses (URLs, domains, status codes) are       *)
(* sequences of one-character strings, so that urlparse, str.split,        *)
(* str.replace and int() are computed character by character.  Texts that  *)
(* the program only passes on (digests, messages) are plain strings.       *)
(***************************************************************************)
EXTENDS Integers, Sequences, FiniteSets, TLC

VARIABLES
    \* st.session_state (lines 12-25)
    domain, unique_urls, show_results, active_tab,
    \* position of the running script and the locals of get_unique_urls
    pc, num_pages, page, acc,
    \* what the current script run has done so far: HTTP requests issued,
    \* time.sleep calls, st.error / st.warning / st.info / st.success / st.code
    log,
    \* how the last script run ended: "none", "completed" or "exception"
    outcome,
    \* robots.txt tab: the widget that triggered the run, the versions
    \* offered for comparison, the two selected, the fetched contents and the
    \* value compare_robots_txt returned
    clicked, changes, date1, date2, old_content, new_content, diffs,
    \* a call of one of the pure functions: which one, its argument, its
    \* result, and the result of applying it to its own result
    call, arg, ret, ret2

vars == <<domain, unique_urls, show_results, active_tab, pc, num_pages, page,
          acc, log, outcome, clicked, changes, date1, date2, old_content,
          new_content, diffs, call, arg, ret, ret2>>

sessionVars == <<domain, unique_urls, show_results, active_tab, pc, num_pages,
                 page, acc, log, outcome, clicked, changes, date1, date2,
                 old_content, new_content, diffs>>

callVars == <<call, arg, ret, ret2>>

-----------------------------------------------------------------------------
(* Bounds of the model *)

\* largest page count the discovery response reports
MaxPages == 3
\* longest discovery body that is a JSON string or object, not an array
MaxNonArrayLen == 2
\* longest network-location part of a URL given to clean_url
MaxNetlocLen == 4
\* longest status code text given to group_status_code
MaxStatusLen == 3
\* most captures in a robots.txt history given to process_robots_txt_changes
MaxCaptures == 3
\* latest capture time of a robots.txt capture
MaxTimestamp == 3
\* most records given to get_top_changing_pages, and the largest top_n
MaxRecords == 4
MaxTopN == 2

-----------------------------------------------------------------------------
(* Python values *)

None == [type |-> "NoneType"]
\* a str value, where a variable may also hold None
Str(s) == [type |-> "str", s |-> s]
\* a call that returned v / a call that raised exception e
Returned(v) == [raised |-> FALSE, value |-> v]
Raised(e) == [raised |-> TRUE, exc |-> e]

Min(a, b) == IF a < b THEN a ELSE b

\* all sequences over S of length at most n
SeqsUpTo(S, n) == UNION {[1..k -> S] : k \in 0..n}

\* s[i:]  (i is the 1-based position of the first element kept)
From(s, i) == SubSeq(s, i, Len(s))
\* s[:i]  (the elements before 1-based position i)
Before(s, i) == SubSeq(s, 1, i - 1)

\* s.find(c, start): 1-based position of the first c at or after start, 0 if none
Find(s, c, start) ==
    IF \E i \in start..Len(s) : s[i] = c
    THEN CHOOSE i \in start..Len(s) : s[i] = c /\ \A j \in start..i - 1 : s[j] # c
    ELSE 0

\* s.rfind(c): 1-based position of the last c, 0 if none
RFind(s, c) ==
    IF \E i \in 1..Len(s) : s[i] = c
    THEN CHOOSE i \in 1..Len(s) : s[i] = c /\ \A j \in i + 1..Len(s) : s[j] # c
    ELSE 0

Contains(s, c) == \E i \in 1..Len(s) : s[i] = c

\* s.split(c)[-1]
SplitLast(s, c) == From(s, RFind(s, c) + 1)

\* s.split(c)[0]
SplitFirst(s, c) ==
    IF Contains(s, c) THEN Before(s, Find(s, c, 1)) ELSE s

\* the text after the first c of s, empty if s has no c
AfterFirst(s, c) ==
    IF Contains(s, c) THEN From(s, Find(s, c, 1) + 1) ELSE << >>

\* s.startswith(p) and s.endswith(p)
StartsWith(s, p) == Len(s) >= Len(p) /\ SubSeq(s, 1, Len(p)) = p
EndsWith(s, p) == Len(s) >= Len(p) /\ From(s, Len(s) - Len(p) + 1) = p

-----------------------------------------------------------------------------
(* urllib.parse, as called by clean_url *)

Letters == {"a", "b", "h", "t", "p", "s", "x", "H"}
Digits == {"0", "1", "2", "3", "4", "5", "6", "7", "8", "9"}
\* urllib.parse.scheme_chars, over the modelled alphabet
SchemeChars == Letters \cup Digits

\* str.lower()
LowerChar(c) == IF c = "H" THEN "h" ELSE c
Lower(s) == [i \in 1..Len(s) |-> LowerChar(s[i])]

http == <<"h", "t", "t", "p">>
https == <<"h", "t", "t", "p", "s">>
shttp == <<"s", "h", "t", "t", "p">>
\* the members of urllib.parse.uses_netloc and uses_params that can be
\* written over the modelled alphabet
UsesNetloc == {<< >>, http, https, shttp}
UsesParams == {<< >>, http, https, shttp}

\* ipaddress.ip_address(host) accepts host as an IPv6 address.  A host too
\* short to spell eight groups (under 15 characters) needs exactly one "::",
\* no single colon at either end and groups of one to four hex digits.
IsIPv6(host) ==
    /\ \A i \in 1..Len(host) : host[i] \in Digits \cup {":"}
    /\ Cardinality({i \in 1..Len(host) - 1 : host[i] = ":" /\ host[i + 1] = ":"}) = 1
    /\ (host # << >> /\ host[1] = ":") => (Len(host) >= 2 /\ host[2] = ":")
    /\ (host # << >> /\ host[Len(host)] = ":")
         => (Len(host) >= 2 /\ host[Len(host) - 1] = ":")
    /\ \A i \in 1..Len(host) - 4 : \E k \in i..i + 4 : host[k] = ":"

\* the ValueError cases of urlsplit for a network location.  Every CPython
\* rejects an unmatched bracket; from 3.11.4 on (strict) the text between
\* the brackets must also be an IP literal.
NetlocRaises(netloc, strict) ==
    \/ Contains(netloc, "[") /\ ~Contains(netloc, "]")
    \/ Contains(netloc, "]") /\ ~Contains(netloc, "[")
    \/ /\ strict
       /\ Contains(netloc, "[") /\ Contains(netloc, "]")
       /\ ~IsIPv6(SplitFirst(AfterFirst(netloc, "["), "]"))

\* urllib.parse._splitnetloc(url, 2): position of the first of / ? # after
\* the leading "//", or one past the end
NetlocEnd(url) ==
    IF \E i \in 3..Len(url) : url[i] \in {"/", "?", "#"}
    THEN CHOOSE i \in 3..Len(url) :
            /\ url[i] \in {"/", "?", "#"}
            /\ \A j \in 3..i - 1 : url[j] \notin {"/", "?", "#"}
    ELSE Len(url) + 1

\* urlsplit: i is the position of the first ':'; the text before it is a
\* scheme if it starts with a letter and consists of scheme characters
IsScheme(url, i) ==
    /\ i > 1
    /\ url[1] \in Letters
    /\ \A k \in 1..i - 1 : url[k] \in SchemeChars

\* position of the ':' that ends the scheme, 0 if the url has no scheme
SchemeEnd(url) ==
    IF IsScheme(url, Find(url, ":", 1)) THEN Find(url, ":", 1) ELSE 0

\* urlsplit, last part: fragment and query are split off the rest
SplitQuery(scheme, netloc, rest, fragment) ==
    Returned([scheme |-> scheme, netloc |-> netloc,
              path |-> SplitFirst(rest, "?"), query |-> AfterFirst(rest, "?"),
              fragment |-> fragment])

SplitFragment(scheme, netloc, rest) ==
    SplitQuery(scheme, netloc, SplitFirst(rest, "#"), AfterFirst(rest, "#"))

\* urlsplit, middle part: a rest that starts with "//" has a network
\* location, which is checked
SplitNetloc(scheme, rest, strict) ==
    IF StartsWith(rest, <<"/", "/">>)
    THEN IF NetlocRaises(SubSeq(rest, 3, NetlocEnd(rest) - 1), strict)
         THEN Raised("ValueError")
         ELSE SplitFragment(scheme, SubSeq(rest, 3, NetlocEnd(rest) - 1),
                            From(rest, NetlocEnd(rest)))
    ELSE SplitFragment(scheme, << >>, rest)

\* urllib.parse.urlsplit
urlsplit(url, strict) ==
    SplitNetloc(Lower(Before(url, SchemeEnd(url))), From(url, SchemeEnd(url) + 1),
                strict)

\* urllib.parse._splitparams: position of the ';' that starts the params
\* of the last path segment, 0 if there is none
ParamsAt(url) ==
    IF Contains(url, "/") THEN Find(url, ";", RFind(url, "/")) ELSE Find(url, ";", 1)

\* urlparse: the split result v with params at position i of its path
\* (i = 0: no params)
WithParams(v, i) ==
    [scheme |-> v.scheme, netloc |-> v.netloc,
     path |-> IF i > 0 THEN Before(v.path, i) ELSE v.path,
     params |-> IF i > 0 THEN From(v.path, i + 1) ELSE << >>,
     query |-> v.query, fragment |-> v.fragment]

SplitParams(v) ==
    WithParams(v, IF v.scheme \in UsesParams /\ Contains(v.path, ";")
                  THEN ParamsAt(v.path) ELSE 0)

\* the result r of a call, or f applied to its value
ParseResult(r) == IF r.raised THEN r ELSE Returned(SplitParams(r.value))

\* urllib.parse.urlparse
urlparse(url, strict) == ParseResult(urlsplit(url, strict))

\* urlunsplit: the url with its "//" and network location, if any
WithNetloc(scheme, netloc, path) ==
    IF \/ netloc # << >>
       \/ /\ scheme # << >>
          /\ scheme \in UsesNetloc
          /\ ~StartsWith(path, <<"/", "/">>)
    THEN <<"/", "/">> \o netloc
         \o (IF path # << >> /\ path[1] # "/" THEN <<"/">> ELSE << >>)
         \o path
    ELSE path

\* urllib.parse.urlunsplit
urlunsplit(scheme, netloc, path, query, fragment) ==
    (IF scheme # << >> THEN scheme \o <<":">> ELSE << >>)
    \o WithNetloc(scheme, netloc, path)
    \o (IF query # << >> THEN <<"?">> \o query ELSE << >>)
    \o (IF fragment # << >> THEN <<"#">> \o fragment ELSE << >>)

\* urllib.parse.urlunparse
urlunparse(scheme, netloc, path, params, query, fragment) ==
    urlunsplit(scheme, netloc,
               IF params # << >> THEN path \o <<";">> \o params ELSE path,
               query, fragment)

\* parsed.netloc.split('@')[-1].split(':')[0]
StripNetloc(netloc) == SplitFirst(SplitLast(netloc, "@"), ":")

\* lines 30-32 for a parsed url
Reassemble(p) ==
    urlunparse(p.scheme, StripNetloc(p.netloc), p.path, p.params, p.query,
               p.fragment)

CleanResult(parsed) ==
    IF parsed.raised THEN parsed ELSE Returned(Reassemble(parsed.value))

\* clean_url(url) under an interpreter with (strict) or without the
\* bracketed-host check
clean_url(url, strict) == CleanResult(urlparse(url, strict))

-----------------------------------------------------------------------------
(* The session before any user action (lines 12-25) *)

SessionStart ==
    /\ domain = << >>
    /\ unique_urls = << >>
    /\ show_results = FALSE
    /\ active_tab = "Folder Visualisation"
    /\ pc = "idle"
    /\ num_pages = 0
    /\ page = 0
    /\ acc = << >>
    /\ log = << >>
    /\ outcome = "none"
    /\ clicked = "none"
    /\ changes = << >>
    /\ date1 = None
    /\ date2 = None
    /\ old_content = None
    /\ new_content = None
    /\ diffs = None

NoCall ==
    /\ call = "none"
    /\ arg = None
    /\ ret = None
    /\ ret2 = None

-----------------------------------------------------------------------------
(* The remote archive, as the program sees it *)

\* the original field of a robots.txt capture
RobotsUrl == "robots.txt"

SchemeSep == <<":", "/", "/">>

\* str.replace(pat, ''): every occurrence of pat, left to right, removed
RECURSIVE RemoveAll(_, _)
RemoveAll(s, pat) ==
    IF Len(s) < Len(pat) THEN s
    ELSE IF StartsWith(s, pat) THEN RemoveAll(From(s, Len(pat) + 1), pat)
    ELSE <<s[1]>> \o RemoveAll(Tail(s), pat)

\* str.rstrip('/')
RECURSIVE RStripSlash(_)
RStripSlash(s) ==
    IF s # << >> /\ s[Len(s)] = "/" THEN RStripSlash(Before(s, Len(s))) ELSE s

\* the domain as queried (lines 36 and 203)
QueryDomain(d) ==
    RStripSlash(RemoveAll(RemoveAll(d, http \o SchemeSep), https \o SchemeSep))

\* what the user may type into the domain field
DomainInputs ==
    {<< >>, <<"a">>, <<"b">>, http \o SchemeSep \o <<"a", "/">>}

\* archived URLs of a domain: plain, with credentials and port, another path
UrlPlain(d) == http \o SchemeSep \o d \o <<"/", "p">>
UrlNoisy(d) == http \o SchemeSep \o <<"h", ":", "p", "@">> \o d \o <<":", "8", "0", "/", "p">>
UrlOther(d) == http \o SchemeSep \o d \o <<"/", "x">>

\* rows (original, timestamp, statuscode, digest) after the header row of
\* page i of the index of domain d; the timestamp tells the pages apart
PageRows(d, i) ==
    IF i % 2 = 0
    THEN <<<<UrlPlain(d), i + 1, "200", "dig1">>>>
    ELSE <<<<UrlNoisy(d), i + 1, "200", "dig2">>, <<UrlOther(d), i + 1, "404", "dig3">>>>

\* ways a page request fails inside the try of lines 69-72: raise_for_status
\* on an error status, an exception of requests.get, a body response.json()
\* cannot decode (requests raises its JSONDecodeError, a RequestException)
PageFailures == {"http_error", "exception", "bad_json"}

\* rows after the header row of a robots.txt history response
RobotsHistories ==
    {<< >>,
     <<<<1, "200", "dig1", RobotsUrl>>>>,
     <<<<1, "200", "dig1", RobotsUrl>>, <<2, "200", "dig1", RobotsUrl>>,
       <<3, "200", "dig2", RobotsUrl>>>>,
     <<<<3, "200", "dig1", RobotsUrl>>, <<1, "200", "dig2", RobotsUrl>>>>}

\* what fetch_robots_txt_content returns: response.text, or None when the
\* status is not 200 (lines 459-462)
ContentResults == {Str("User-agent: *"), None}

-----------------------------------------------------------------------------
(* The log of a script run *)

Entry(op, what, n) ==
    [op |-> op, what |-> what, n |-> n, result |-> "-", rows |-> << >>]

\* a request and how the remote answered it
Get(what, n, result, rows) ==
    [op |-> "GET", what |-> what, n |-> n, result |-> result, rows |-> rows]

\* time.sleep after a page that was fetched (line 82) and after one that
\* failed (line 85)
PageDelay == 1
ErrorBackoff == 5

Tabs == {"Folder Visualisation", "Status Code Visualisation",
         "Frequently Changed Pages", "robots.txt Changes", "Download URLs"}

-----------------------------------------------------------------------------
(* Script runs.  Every user action runs the script from the top; a run     *)
(* blocks in each HTTP request, so a step is one request, its response and *)
(* the code up to the next request.                                        *)

\* an exception nothing catches ends the run; Streamlit shows it and the
\* session stays as it was at that point
Uncaught(lg, exc) ==
    /\ log' = Append(lg, Entry("exception", exc, 0))
    /\ pc' = "idle"
    /\ outcome' = "exception"

\* the results section (lines 466-562) with show_results as sr: only the
\* robots.txt tab issues requests
Display(lg, sr) ==
    /\ log' = lg
    /\ IF sr /\ active_tab' = "robots.txt Changes"
       THEN pc' = "robots_history" /\ outcome' = "running"
       ELSE pc' = "idle" /\ outcome' = "completed"

\* the locals of a new run
StartRun(widget) ==
    /\ clicked' = widget
    /\ num_pages' = 0
    /\ page' = 0
    /\ acc' = << >>
    /\ changes' = << >>
    /\ date1' = << >>
    /\ date2' = << >>
    /\ old_content' = None
    /\ new_content' = None
    /\ diffs' = None

runLocals == <<clicked, changes, date1, date2, old_content, new_content, diffs>>

\* the form is submitted with d in the domain field (lines 445-454,
\* handle_submit, fetch_urls up to the discovery request)
Submit(d) ==
    /\ pc = "idle"
    /\ StartRun("submit")
    /\ domain' = d
    /\ UNCHANGED <<unique_urls, show_results, active_tab>>
    /\ IF d # << >>
       THEN /\ log' = << >>
            /\ pc' = "discovery"
            /\ outcome' = "running"
       ELSE Display(<<Entry("warning", "Please enter a domain.", 0)>>, show_results)
    /\ UNCHANGED callVars

\* another tab is selected (on_tab_change, lines 472-477)
SelectTab(t) ==
    /\ pc = "idle"
    /\ show_results
    /\ t # active_tab
    /\ StartRun("tab_selector")
    /\ active_tab' = t
    /\ UNCHANGED <<domain, unique_urls, show_results>>
    /\ Display(<< >>, show_results)
    /\ UNCHANGED callVars

\* "Compare versions" is clicked; the button is on the page when the last
\* run offered at least two versions
ClickCompare ==
    /\ pc = "idle"
    /\ show_results
    /\ active_tab = "robots.txt Changes"
    /\ Len(changes) >= 2
    /\ StartRun("Compare versions")
    /\ UNCHANGED <<domain, unique_urls, show_results, active_tab>>
    /\ Display(<< >>, show_results)
    /\ UNCHANGED callVars

\* a fetch_urls that stores whatever get_unique_urls returned, an empty
\* list included
ReturnUrlsReplacing(lg, result) ==
    /\ unique_urls' = result
    /\ show_results' = IF result # << >> THEN TRUE ELSE show_results
    /\ UNCHANGED active_tab
    /\ Display(lg \o <<[Entry("return", "get_unique_urls", 0) EXCEPT !.rows = result],
                       IF result # << >>
                       THEN Entry("success", "Found URLs.", Len(result))
                       ELSE Entry("warning", "No URLs found. Check the domain name.", 0)>>,
               IF result # << >> THEN TRUE ELSE show_results)

\* get_unique_urls returns result to fetch_urls (lines 378-385), and the
\* script goes on to the results section
ReturnUrls(lg, result) ==
    /\ unique_urls' = IF result # << >> THEN result ELSE unique_urls
    /\ show_results' = IF result # << >> THEN TRUE ELSE show_results
    /\ UNCHANGED active_tab
    /\ Display(lg \o <<[Entry("return", "get_unique_urls", 0) EXCEPT !.rows = result],
                       IF result # << >>
                       THEN Entry("success", "Found URLs.", Len(result))
                       ELSE Entry("warning", "No URLs found. Check the domain name.", 0)>>,
               IF result # << >> THEN TRUE ELSE show_results)

\* line 46 raises (timeout, connection error): it is outside any try
DiscoveryRaises ==
    /\ pc = "discovery"
    /\ Uncaught(Append(log, Get("discovery", 0, "exception", << >>)), "RequestException")
    /\ UNCHANGED <<domain, unique_urls, show_results, active_tab, num_pages, page, acc>>
    /\ UNCHANGED runLocals
    /\ UNCHANGED callVars

\* lines 47-49: a status other than 200
DiscoveryBadStatus ==
    /\ pc = "discovery"
    /\ ReturnUrls(log \o <<Get("discovery", 0, "status_503", << >>),
                          Entry("error", "Unable to fetch data.", 503)>>, << >>)
    /\ UNCHANGED <<domain, num_pages, page, acc>>
    /\ UNCHANGED runLocals
    /\ UNCHANGED callVars

\* lines 51-56: the body is not JSON
DiscoveryNotJson ==
    /\ pc = "discovery"
    /\ ReturnUrls(log \o <<Get("discovery", 0, "not_json", << >>),
                          Entry("error", "Unable to parse the response from the server.", 0)>>,
                  << >>)
    /\ UNCHANGED <<domain, num_pages, page, acc>>
    /\ UNCHANGED runLocals
    /\ UNCHANGED callVars

\* line 53 on a JSON number, true, false or null: len() raises TypeError,
\* and only json.JSONDecodeError is caught
DiscoveryNotSized ==
    /\ pc = "discovery"
    /\ Uncaught(Append(log, Get("discovery", 0, "json_scalar", << >>)), "TypeError")
    /\ UNCHANGED <<domain, unique_urls, show_results, active_tab, num_pages, page, acc>>
    /\ UNCHANGED runLocals
    /\ UNCHANGED callVars

\* lines 53-64 once len(data) is known to be n + 1; kind is what the body
\* decoded to
Counted(kind, n) ==
    /\ num_pages' = n
    /\ page' = 0
    /\ acc' = << >>
    /\ LET got == Get("discovery", n, kind, << >>)
       IN IF n = 0
          THEN ReturnUrls(log \o <<got, Entry("warning", "No pages found for the given domain.", 0)>>,
                          << >>)
          ELSE IF n < 0
          THEN ReturnUrls(log \o <<got, Entry("info", "Total pages to process", n)>>, << >>)
          ELSE /\ log' = log \o <<got, Entry("info", "Total pages to process", n)>>
               /\ pc' = "page"
               /\ outcome' = "running"
               /\ UNCHANGED <<unique_urls, show_results, active_tab>>
    /\ UNCHANGED domain
    /\ UNCHANGED runLocals
    /\ UNCHANGED callVars

\* the body is a JSON array of len rows: the paged-array structure
DiscoveryPaged(len) ==
    /\ pc = "discovery"
    /\ Counted("json_array", len - 1)

\* the body is a JSON string or object: len() counts its characters or keys
DiscoverySized(len) ==
    /\ pc = "discovery"
    /\ Counted("json_not_array", len - 1)

\* lines 74-79: the records made from the rows of a page; raises what
\* clean_url raises
ParseRows(rows) ==
    LET cleaned == [k \in 1..Len(rows) |-> clean_url(rows[k][1], TRUE)]
    IN IF \E k \in 1..Len(rows) : cleaned[k].raised
       THEN Raised("ValueError")
       ELSE Returned([k \in 1..Len(rows) |->
                        <<cleaned[k].value, rows[k][2], rows[k][3], rows[k][4]>>])

\* a loop that steps over every other page
NextPageSkipping(p) == p + 2

\* the page that follows page p in range(num_pages)
NextPage(p) == p + 1

\* the loop of lines 65-85 moves on from the current page with the records
\* collected so far, or get_unique_urls returns them (line 87)
Advance(lg, collected) ==
    /\ acc' = collected
    /\ page' = NextPage(page)
    /\ IF NextPage(page) < num_pages
       THEN /\ log' = lg
            /\ pc' = "page"
            /\ outcome' = "running"
            /\ UNCHANGED <<unique_urls, show_results, active_tab>>
       ELSE ReturnUrls(lg, collected)

\* lines 66-82: the page is fetched and parsed
PageFetched ==
    /\ pc = "page"
    /\ LET rows == PageRows(QueryDomain(domain), page)
           got == Get("page", page, "ok", rows)
           parsed == ParseRows(rows)
       IN IF parsed.raised
          THEN /\ Uncaught(Append(log, got), parsed.exc)
               /\ UNCHANGED <<unique_urls, show_results, active_tab, page, acc>>
          ELSE Advance(log \o <<got, Entry("progress", "pages done", page + 1),
                                Entry("sleep", "seconds", PageDelay)>>,
                       acc \o parsed.value)
    /\ UNCHANGED <<domain, num_pages>>
    /\ UNCHANGED runLocals
    /\ UNCHANGED callVars

\* a failed request that ends the loop: what was collected so far is
\* returned at once
PageFailedAborting(how) ==
    /\ pc = "page"
    /\ acc' = acc
    /\ page' = page
    /\ ReturnUrls(log \o <<Get("page", page, how, << >>),
                          Entry("warning", "Error fetching page", page),
                          Entry("sleep", "seconds", ErrorBackoff)>>,
                  acc)
    /\ UNCHANGED <<domain, num_pages>>
    /\ UNCHANGED runLocals
    /\ UNCHANGED callVars

\* a failed request after which the loop waits as after a fetched page
PageFailedShortWait(how) ==
    /\ pc = "page"
    /\ Advance(log \o <<Get("page", page, how, << >>),
                        Entry("warning", "Error fetching page", page),
                        Entry("sleep", "seconds", PageDelay)>>,
               acc)
    /\ UNCHANGED <<domain, num_pages>>
    /\ UNCHANGED runLocals
    /\ UNCHANGED callVars

\* lines 83-85: the request fails with a RequestException
PageFailed(how) ==
    /\ pc = "page"
    /\ Advance(log \o <<Get("page", page, how, << >>),
                        Entry("warning", "Error fetching page", page),
                        Entry("sleep", "seconds", ErrorBackoff)>>,
               acc)
    /\ UNCHANGED <<domain, num_pages>>
    /\ UNCHANGED runLocals
    /\ UNCHANGED callVars

-----------------------------------------------------------------------------
(* process_robots_txt_changes (lines 227-239) *)

\* the entry (timestamp, digest, original) made from a row of 4 or 3 fields
\* (lines 230-234)
ChangeOf(item) ==
    <<item[1], item[3], IF Len(item) = 4 THEN item[4] ELSE None>>

\* the loop of lines 229-237 with the "digest not in changes" test left
\* out: a later capture of a digest replaces the entry
RECURSIVE ChangesDictOverwriting(_)
ChangesDictOverwriting(robots_txt_data) ==
    IF robots_txt_data = << >> THEN << >>
    ELSE LET n == Len(robots_txt_data)
             sofar == ChangesDictOverwriting(Before(robots_txt_data, n))
             item == robots_txt_data[n]
         IN IF \E k \in 1..Len(sofar) : sofar[k][2] = item[3]
            THEN [k \in 1..Len(sofar) |->
                    IF sofar[k][2] = item[3] THEN ChangeOf(item) ELSE sofar[k]]
            ELSE Append(sofar, ChangeOf(item))

\* the dict changes after the loop of lines 229-237, as its values in
\* insertion order: a digest already present keeps its entry
RECURSIVE ChangesDict(_)
ChangesDict(robots_txt_data) ==
    IF robots_txt_data = << >> THEN << >>
    ELSE LET n == Len(robots_txt_data)
             sofar == ChangesDict(Before(robots_txt_data, n))
             item == robots_txt_data[n]
         IN IF \E k \in 1..Len(sofar) : sofar[k][2] = item[3]
            THEN sofar
            ELSE Append(sofar, ChangeOf(item))

\* sorted(values, key=lambda x: x[0]): stable, ascending.  Timestamps are
\* digit strings of one width, which order as the numbers used here.
RECURSIVE SortedByTimestamp(_)
SortedByTimestamp(values) ==
    IF values = << >> THEN << >>
    ELSE LET n == Len(values)
             sorted == SortedByTimestamp(Before(values, n))
             x == values[n]
             k == Cardinality({i \in 1..Len(sorted) : sorted[i][1] <= x[1]})
         IN SubSeq(sorted, 1, k) \o <<x>> \o From(sorted, k + 1)

process_robots_txt_changes(robots_txt_data) ==
    SortedByTimestamp(ChangesDict(robots_txt_data))

-----------------------------------------------------------------------------
(* The robots.txt tab (lines 528-562) *)

\* the run is over without an exception
Completed(lg) ==
    /\ log' = lg
    /\ pc' = "idle"
    /\ outcome' = "completed"

fetchVars == <<domain, unique_urls, show_results, active_tab, num_pages, page, acc>>

\* line 214 raises: fetch_robots_txt_data has no try around the request
HistoryRaises ==
    /\ pc = "robots_history"
    /\ Uncaught(Append(log, Get("robots.txt history", 0, "exception", << >>)),
                "RequestException")
    /\ UNCHANGED fetchVars
    /\ UNCHANGED runLocals
    /\ UNCHANGED callVars

\* lines 215-217: a status other than 200; the empty list shows nothing
HistoryBadStatus ==
    /\ pc = "robots_history"
    /\ Completed(log \o <<Get("robots.txt history", 0, "status_503", << >>),
                         Entry("error", "Unable to fetch robots.txt data.", 503)>>)
    /\ UNCHANGED fetchVars
    /\ UNCHANGED runLocals
    /\ UNCHANGED callVars

\* lines 219-224: the body is not JSON
HistoryNotJson ==
    /\ pc = "robots_history"
    /\ Completed(log \o <<Get("robots.txt history", 0, "not_json", << >>),
                         Entry("error", "Unable to parse the response from the server.", 0)>>)
    /\ UNCHANGED fetchVars
    /\ UNCHANGED runLocals
    /\ UNCHANGED callVars

\* line 221 on a JSON number, true, false, null or object: data[1:] raises
\* TypeError, and only json.JSONDecodeError is caught
HistoryNotSliceable ==
    /\ pc = "robots_history"
    /\ Uncaught(Append(log, Get("robots.txt history", 0, "json_scalar", << >>)), "TypeError")
    /\ UNCHANGED fetchVars
    /\ UNCHANGED runLocals
    /\ UNCHANGED callVars

\* lines 221 and 532-548: the rows after the header are listed.  With one
\* version only, the second selectbox (index=1) raises Streamlit's
\* StreamlitAPIException; otherwise date1 and date2 are whatever the user
\* has selected, and a click on the button goes on to compare them.
HistoryListed(rows) ==
    /\ pc = "robots_history"
    /\ LET got == Get("robots.txt history", 0, "ok", rows)
           versions == process_robots_txt_changes(rows)
       IN IF rows = << >>
          THEN /\ Completed(Append(log, got))
               /\ UNCHANGED <<changes, date1, date2>>
          ELSE /\ changes' = versions
               /\ IF Len(versions) < 2
                  THEN /\ Uncaught(Append(log, got), "StreamlitAPIException")
                       /\ UNCHANGED <<date1, date2>>
                  ELSE /\ \E i, j \in 1..Len(versions) :
                            date1' = versions[i] /\ date2' = versions[j]
                       /\ IF clicked = "Compare versions"
                          THEN /\ log' = Append(log, got)
                               /\ pc' = "content_old"
                               /\ outcome' = "running"
                          ELSE Completed(Append(log, got))
    /\ UNCHANGED fetchVars
    /\ UNCHANGED <<clicked, old_content, new_content, diffs>>
    /\ UNCHANGED callVars

\* the request of fetch_robots_txt_content(domain, timestamp) answered with
\* content, or with another status when content is None
GetContent(timestamp, content) ==
    Get("robots.txt content", timestamp,
        IF content.type = "NoneType" THEN "status_404" ELSE "ok", << >>)

\* line 458 raises, in any of the four calls of fetch_robots_txt_content:
\* it has no try around the request
ContentRaises ==
    /\ pc \in {"content_old", "content_new", "content1", "content2"}
    /\ Uncaught(Append(log, Get("robots.txt content", 0, "exception", << >>)),
                "RequestException")
    /\ UNCHANGED fetchVars
    /\ UNCHANGED runLocals
    /\ UNCHANGED callVars

\* line 243: compare_robots_txt fetches the old version
FetchOldContent(content) ==
    /\ pc = "content_old"
    /\ old_content' = content
    /\ log' = Append(log, GetContent(date1[1], content))
    /\ pc' = "content_new"
    /\ UNCHANGED outcome
    /\ UNCHANGED fetchVars
    /\ UNCHANGED <<clicked, changes, date1, date2, new_content, diffs>>
    /\ UNCHANGED callVars

\* the value compare_robots_txt returns (lines 246-253): the error text if
\* a content is None, else the result of diff_main and diff_cleanupSemantic
CompareResult(old, new) ==
    IF old.type = "NoneType" \/ new.type = "NoneType"
    THEN Str("Error: Unable to fetch one or both versions of robots.txt")
    ELSE [type |-> "list", old |-> old.s, new |-> new.s]

\* lines 244-253 and 550: the new version is fetched and compare_robots_txt
\* returns into diffs, which the script never reads again
FetchNewContent(content) ==
    /\ pc = "content_new"
    /\ new_content' = content
    /\ diffs' = CompareResult(old_content, content)
    /\ log' = log \o <<GetContent(date2[1], content)>>
                 \o (IF diffs'.type = "list"
                     THEN <<Entry("diff_main", "old_content, new_content", 0)>>
                     ELSE << >>)
    /\ pc' = "content1"
    /\ UNCHANGED outcome
    /\ UNCHANGED fetchVars
    /\ UNCHANGED <<clicked, changes, date1, date2, old_content>>
    /\ UNCHANGED callVars

\* st.code(content): the text, or None, is put on the page
Code(content) == [Entry("code", "content", 0) EXCEPT !.rows = <<content>>]

\* lines 553-558: the first version is fetched again and shown
ShowContent1(content) ==
    /\ pc = "content1"
    /\ log' = log \o <<Entry("subheader", "Full content of selected versions", 0),
                       GetContent(date1[1], content), Code(content)>>
    /\ pc' = "content2"
    /\ UNCHANGED outcome
    /\ UNCHANGED fetchVars
    /\ UNCHANGED runLocals
    /\ UNCHANGED callVars

\* lines 559-562: the second version is fetched again and shown
ShowContent2(content) ==
    /\ pc = "content2"
    /\ Completed(log \o <<GetContent(date2[1], content), Code(content)>>)
    /\ UNCHANGED fetchVars
    /\ UNCHANGED runLocals
    /\ UNCHANGED callVars

-----------------------------------------------------------------------------
(* The dashboard session *)

Init == SessionStart /\ NoCall

Next ==
    \/ \E d \in DomainInputs : Submit(d)
    \/ \E t \in Tabs : SelectTab(t)
    \/ ClickCompare
    \/ DiscoveryRaises
    \/ DiscoveryBadStatus
    \/ DiscoveryNotJson
    \/ DiscoveryNotSized
    \/ \E len \in 0..MaxPages + 1 : DiscoveryPaged(len)
    \/ \E len \in 1..MaxNonArrayLen : DiscoverySized(len)
    \/ PageFetched
    \/ \E how \in PageFailures : PageFailed(how)
    \/ HistoryRaises
    \/ HistoryBadStatus
    \/ HistoryNotJson
    \/ HistoryNotSliceable
    \/ \E rows \in RobotsHistories : HistoryListed(rows)
    \/ ContentRaises
    \/ \E content \in ContentResults : FetchOldContent(content)
    \/ \E content \in ContentResults : FetchNewContent(content)
    \/ \E content \in ContentResults : ShowContent1(content)
    \/ \E content \in ContentResults : ShowContent2(content)

Spec == Init /\ [][Next]_vars

-----------------------------------------------------------------------------
(* Properties of the dashboard session *)

IsPageGet(e) == e.op = "GET" /\ e.what = "page"
IsDiscoveryGet(e) == e.op = "GET" /\ e.what = "discovery"
IsPageWarning(e) == e.op = "warning" /\ e.what = "Error fetching page"
IsReturn(e) == e.op = "return"

\* the page requests of the run, in the order issued
PageGets == SelectSeq(log, IsPageGet)

\* get_unique_urls has returned in this run, and what it returned
HasReturned == \E k \in 1..Len(log) : IsReturn(log[k])
ReturnedRows == SelectSeq(log, IsReturn)[1].rows

\* the records the rows of a page stand for: the url canonicalized, the
\* other fields as they are
RecordsOf(rows) ==
    [k \in 1..Len(rows) |->
        <<clean_url(rows[k][1], TRUE).value, rows[k][2], rows[k][3], rows[k][4]>>]

\* the records of the answered requests among gets, in request order
RECURSIVE RecordsOfPages(_)
RecordsOfPages(gets) ==
    IF gets = << >> THEN << >>
    ELSE RecordsOfPages(Before(gets, Len(gets)))
         \o (IF gets[Len(gets)].result = "ok"
             THEN RecordsOf(gets[Len(gets)].rows) ELSE << >>)

\* C1: when discovery reports N > 0 pages, get_unique_urls issues exactly N
\* page requests, for the page indexes 0..N-1 in increasing order, none
\* twice; when every page succeeds it returns the records of the pages
\* concatenated in page order.
C1_PagesRequestedOnceInOrder ==
    /\ \A k \in 1..Len(PageGets) : PageGets[k].n = k - 1
    /\ (HasReturned /\ num_pages > 0) =>
          /\ Len(PageGets) = num_pages
          /\ (\A k \in 1..Len(PageGets) : PageGets[k].result = "ok")
                => ReturnedRows = RecordsOfPages(PageGets)

\* three pages, all fetched: the four records of pages 0, 1 and 2 are
\* returned
C1_Witness ==
    /\ HasReturned
    /\ num_pages = 3
    /\ Len(PageGets) = 3
    /\ \A k \in 1..3 : PageGets[k].result = "ok"
    /\ Len(ReturnedRows) = 4
    /\ ReturnedRows[1][2] = 1 /\ ReturnedRows[2][2] = 2 /\ ReturnedRows[4][2] = 3

\* C2: a failing page request does not abort get_unique_urls: whichever
\* pages fail, it returns the records of the pages that did not, in page
\* order, and one warning is recorded per failed page.
C2_FailedPagesSkipped ==
    /\ (HasReturned /\ num_pages > 0) =>
          /\ ReturnedRows = RecordsOfPages(PageGets)
          /\ Len(PageGets) = num_pages
    /\ LET warned == SelectSeq(log, IsPageWarning)
           failed == SelectSeq(PageGets, LAMBDA e : e.result # "ok")
       IN /\ Len(warned) = Len(failed)
          /\ \A k \in 1..Len(warned) : warned[k].n = failed[k].n

\* page 1 of 3 fails: the records of pages 0 and 2 are returned, with one
\* warning, for page 1
C2_Witness ==
    /\ HasReturned
    /\ num_pages = 3
    /\ PageGets[1].result = "ok"
    /\ PageGets[2].result \in PageFailures
    /\ PageGets[3].result = "ok"
    /\ Len(ReturnedRows) = 2
    /\ ReturnedRows[1][2] = 1 /\ ReturnedRows[2][2] = 3
    /\ Len(SelectSeq(log, IsPageWarning)) = 1
    /\ SelectSeq(log, IsPageWarning)[1].n = 1

\* the discovery request of the run, once answered
DiscoveryGets == SelectSeq(log, IsDiscoveryGet)

\* control has left get_unique_urls
FetchOver == pc \notin {"discovery", "page"}

\* C3: a page request is issued only after a discovery request answered
\* with status 200, a body that is the paged array, and a page count other
\* than zero.  A discovery answer with another status, or with a body that
\* is not the paged array, ends the fetch with an error message and an
\* empty result; a page count of zero ends it with the warning "No pages
\* found" and an empty result; no page request is issued in these cases.
C3_IndexFailuresAbortFetch ==
    /\ PageGets # << >> =>
          /\ DiscoveryGets # << >>
          /\ DiscoveryGets[1].result = "json_array"
          /\ DiscoveryGets[1].n # 0
    /\ (DiscoveryGets # << >> /\ FetchOver
        /\ DiscoveryGets[1].result
             \in {"status_503", "not_json", "json_scalar", "json_not_array"}) =>
          /\ PageGets = << >>
          /\ \E k \in 1..Len(log) : log[k].op = "error"
          /\ HasReturned /\ ReturnedRows = << >>
    /\ (DiscoveryGets # << >> /\ FetchOver
        /\ DiscoveryGets[1].result = "json_array" /\ DiscoveryGets[1].n = 0) =>
          /\ PageGets = << >>
          /\ \E k \in 1..Len(log) :
                log[k].op = "warning"
                /\ log[k].what = "No pages found for the given domain."
          /\ HasReturned /\ ReturnedRows = << >>

\* the host of the url of a record
HostOf(rec) == urlparse(rec[1], TRUE).value.netloc

\* C4: once a fetch for the domain in session_state.domain has completed,
\* with records, with an empty result or with an index failure,
\* session_state.unique_urls holds no record of an earlier fetch for
\* another domain.
C4_RecordsReplacedByFetch ==
    HasReturned =>
        \A k \in 1..Len(unique_urls) : HostOf(unique_urls[k]) = QueryDomain(domain)

\* ways a remote request fails: a status other than success, a body that
\* cannot be parsed, an exception of the request
FailedResults ==
    {"status_503", "status_404", "http_error", "not_json", "bad_json",
     "json_scalar", "exception"}

\* C5: no failure of a remote request (discovery, page, robots.txt history,
\* robots.txt content) is fatal: none is followed by an exception that
\* nothing handles, and the run ends ready for the next user action.
C5_NoRemoteFailureIsFatal ==
    /\ \A k \in 1..Len(log) - 1 :
          (log[k].op = "GET" /\ log[k].result \in FailedResults)
             => log[k + 1].op # "exception"
    /\ outcome \in {"completed", "exception"} => pc = "idle"

\* what the page shows of the run: the texts and values of the st.* calls
Shown == {<<log[k].what, log[k].rows>> : k \in 1..Len(log)}

DiffMainCalled == \E k \in 1..Len(log) : log[k].op = "diff_main"

\* C7: when the content fetch of either compared version is answered with
\* a status other than 200, diff_main is not called and the user is shown
\* an error message instead of a diff; when both are fetched the diff of
\* the two contents is produced.
C7_ContentFailureSurfaced ==
    (clicked = "Compare versions" /\ outcome = "completed" /\ diffs.type # "NoneType") =>
        IF old_content.type = "NoneType" \/ new_content.type = "NoneType"
        THEN /\ ~DiffMainCalled
             /\ \E k \in 1..Len(log) :
                   /\ log[k].op \in {"error", "warning", "code", "write", "text"}
                   /\ \/ log[k].what = "Error: Unable to fetch one or both versions of robots.txt"
                      \/ log[k].rows = <<diffs>>
        ELSE /\ DiffMainCalled
             /\ diffs = [type |-> "list", old |-> old_content.s, new |-> new_content.s]

\* log entries i < j are page requests with no page request between them
ConsecutivePageGets(i, j) ==
    /\ i < j
    /\ IsPageGet(log[i]) /\ IsPageGet(log[j])
    /\ \A k \in i + 1..j - 1 : ~IsPageGet(log[k])

\* the time.sleep calls between log entries i and j
WaitsBetween(i, j) == {k \in i + 1..j - 1 : log[k].op = "sleep"}

\* C15: between two consecutive page requests exactly one wait occurs, of 1
\* time unit if the earlier request was answered with a page and of 5 if it
\* failed, and the later request is for the next page index.
C15_OneWaitBetweenPages ==
    \A i, j \in 1..Len(log) :
        ConsecutivePageGets(i, j) =>
            /\ Cardinality(WaitsBetween(i, j)) = 1
            /\ \A k \in WaitsBetween(i, j) :
                  log[k].n = IF log[i].result = "ok" THEN 1 ELSE 5
            /\ log[j].n = log[i].n + 1

\* page 0 is fetched, page 1 fails, page 2 is requested: the waits between
\* the three requests are 1 and 5
C15_Witness ==
    /\ Len(PageGets) = 3
    /\ PageGets[1].result = "ok"
    /\ PageGets[2].result \in PageFailures
    /\ PageGets[3].n = 2
    /\ \E i, j, l \in 1..Len(log) :
          /\ ConsecutivePageGets(i, j) /\ ConsecutivePageGets(j, l)
          /\ \E k \in WaitsBetween(i, j) : log[k].n = 1
          /\ \E k \in WaitsBetween(j, l) : log[k].n = 5

\* get_unique_urls returns in this step
ReturnsNow == ~HasReturned /\ HasReturned'

\* C16: show_results is true only while session_state.unique_urls is a
\* non-empty record list; the two change only in a step in which a fetch
\* returns at least one record, which stores those records and sets
\* show_results (so an empty fetch and a submit without a domain change
\* neither); and show_results, once true, stays true.
C16_ResultsShownOnlyWithRecords ==
    /\ [](show_results => unique_urls # << >>)
    /\ [][(show_results' # show_results \/ unique_urls' # unique_urls)
            => /\ ReturnsNow
               /\ ReturnedRows' # << >>
               /\ unique_urls' = ReturnedRows'
               /\ show_results']_vars
    /\ [][show_results => show_results']_vars

\* results are on show with the records of an earlier fetch after a fetch
\* that returned an empty list
C16_Witness ==
    /\ show_results
    /\ unique_urls # << >>
    /\ HasReturned
    /\ ReturnedRows = << >>
    /\ pc = "idle"

-----------------------------------------------------------------------------
(* clean_url applied to a URL, and again to its own result *)

NetChars == {"h", "1", ":", "@", "[", "]"}

\* URLs given to clean_url: an optional scheme, an optional "//" with a
\* network location, and a tail of path, params, query and fragment
CleanSchemes == {<< >>, http \o <<":">>, <<"H", "t", "t", "p", ":">>, <<"x", ":">>}
CleanTails == {<< >>, <<"/", "p">>, <<"/", "/", "p">>,
               <<"/", "p", ";", "x", "?", "p", "#", "t">>}
CleanInputs ==
    {s \o <<"/", "/">> \o n \o t :
        s \in CleanSchemes, n \in SeqsUpTo(NetChars, MaxNetlocLen), t \in CleanTails}
    \cup {s \o t : s \in CleanSchemes, t \in CleanTails}

InitClean ==
    /\ SessionStart
    /\ call = "clean_url"
    /\ arg \in [url : CleanInputs, strict : BOOLEAN]
    /\ ret = None
    /\ ret2 = None

\* c = clean_url(u)
CleanOnce ==
    /\ call = "clean_url"
    /\ ret' = clean_url(arg.url, arg.strict)
    /\ call' = IF ret'.raised THEN "done" ELSE "clean_url again"
    /\ UNCHANGED <<arg, ret2>>
    /\ UNCHANGED sessionVars

\* clean_url(c)
CleanTwice ==
    /\ call = "clean_url again"
    /\ ret2' = clean_url(ret.value, arg.strict)
    /\ call' = "done"
    /\ UNCHANGED <<arg, ret>>
    /\ UNCHANGED sessionVars

NextClean == CleanOnce \/ CleanTwice

SpecClean == InitClean /\ [][NextClean]_vars

\* C10: clean_url is idempotent: whenever clean_url(u) returns,
\* clean_url(clean_url(u)) returns as well and equals clean_url(u).
C10_CleanUrlIdempotent ==
    (call = "done" /\ ~ret.raised) => (~ret2.raised /\ ret2.value = ret.value)

\* the url of the record made from the archived URL arg.url (line 75) has
\* been computed
UrlCleaned == call \in {"clean_url again", "done"} /\ ~ret.raised

\* the components of the archived URL and of the url of its record
OriginalParts == urlparse(arg.url, arg.strict).value
RecordParts == urlparse(ret.value, arg.strict)

\* C11: the url of every record is canonicalized: it is a URL whose host
\* component has no userinfo ('@') and no port (':'), and whose scheme,
\* path, query and fragment are those of the archived URL.
C11_RecordUrlCanonical ==
    UrlCleaned =>
        /\ ~RecordParts.raised
        /\ ~Contains(RecordParts.value.netloc, "@")
        /\ ~Contains(RecordParts.value.netloc, ":")
        /\ RecordParts.value.scheme = OriginalParts.scheme
        /\ RecordParts.value.path = OriginalParts.path
        /\ RecordParts.value.query = OriginalParts.query
        /\ RecordParts.value.fragment = OriginalParts.fragment

-----------------------------------------------------------------------------
(* group_status_code applied to the status field of a record *)

\* int(s) for a str s: an optional sign followed by decimal digits, else
\* ValueError
DigitValue(c) ==
    CASE c = "0" -> 0 [] c = "1" -> 1 [] c = "2" -> 2 [] c = "3" -> 3
      [] c = "4" -> 4 [] c = "5" -> 5 [] c = "6" -> 6 [] c = "7" -> 7
      [] c = "8" -> 8 [] c = "9" -> 9

RECURSIVE DecimalValue(_)
DecimalValue(ds) ==
    IF ds = << >> THEN 0
    ELSE 10 * DecimalValue(Before(ds, Len(ds))) + DigitValue(ds[Len(ds)])

IntOfStr(s) ==
    LET signed == s # << >> /\ s[1] \in {"-", "+"}
        ds == IF signed THEN Tail(s) ELSE s
    IN IF ds = << >> \/ \E i \in 1..Len(ds) : ds[i] \notin Digits
       THEN Raised("ValueError")
       ELSE Returned(IF signed /\ s[1] = "-" THEN 0 - DecimalValue(ds)
                     ELSE DecimalValue(ds))

\* int(code): a str is parsed, None is a TypeError
PyInt(code) ==
    IF code.type = "NoneType" THEN Raised("TypeError") ELSE IntOfStr(code.s)

\* the class a parsed code falls in (lines 146-155)
StatusClass(code) ==
    IF code < 200 THEN "1xx"
    ELSE IF code < 300 THEN "2xx"
    ELSE IF code < 400 THEN "3xx"
    ELSE IF code < 500 THEN "4xx"
    ELSE "5xx"

\* group_status_code(code): only ValueError is caught
group_status_code(code) ==
    LET n == PyInt(code)
    IN IF ~n.raised THEN Returned(StatusClass(n.value))
       ELSE IF n.exc = "ValueError" THEN Returned("Unknown")
       ELSE n

StatusChars == Digits \cup {"-", "a"}
\* status values of a record: a text, or None for an absent (JSON null) value
StatusInputs == {Str(s) : s \in SeqsUpTo(StatusChars, MaxStatusLen)} \cup {None}

InitStatus ==
    /\ SessionStart
    /\ call = "group_status_code"
    /\ arg \in StatusInputs
    /\ ret = None
    /\ ret2 = None

GroupStatusCode ==
    /\ call = "group_status_code"
    /\ ret' = group_status_code(arg)
    /\ call' = "done"
    /\ UNCHANGED <<arg, ret2>>
    /\ UNCHANGED sessionVars

NextStatus == GroupStatusCode

SpecStatus == InitStatus /\ [][NextStatus]_vars

StatusClasses == {"1xx", "2xx", "3xx", "4xx", "5xx", "Unknown"}

\* the class named after the hundreds digit of a code in 100..599
HundredsClass(n) ==
    CASE n \div 100 = 1 -> "1xx" [] n \div 100 = 2 -> "2xx"
      [] n \div 100 = 3 -> "3xx" [] n \div 100 = 4 -> "4xx"
      [] n \div 100 = 5 -> "5xx"

\* a status value that is a text of decimal digits only
IsNumericCode(code) ==
    /\ code.type = "str"
    /\ code.s # << >>
    /\ \A i \in 1..Len(code.s) : code.s[i] \in Digits

\* C9: group_status_code is total over the status values of records and
\* returns one of 1xx, 2xx, 3xx, 4xx, 5xx, Unknown: a numeric code between
\* 100 and 599 gets the class of its hundreds digit, and every value that
\* is not a number (a text such as "abc" or "-", an absent value) gets
\* Unknown.
C9_GroupStatusCodeTotal ==
    call = "done" =>
        /\ ~ret.raised
        /\ ret.value \in StatusClasses
        /\ (IsNumericCode(arg) /\ DecimalValue(arg.s) \in 100..599)
              => ret.value = HundredsClass(DecimalValue(arg.s))
        /\ (arg.type = "NoneType" \/ IntOfStr(arg.s).raised)
              => ret.value = "Unknown"

-----------------------------------------------------------------------------
(* process_robots_txt_changes applied to the rows of a robots.txt history *)

Digests == {"dig1", "dig2", "dig3"}
\* rows of the history response: timestamp, statuscode, digest and, in rows
\* of 4 fields, original
Captures ==
    {<<t, "200", d>> : t \in 1..MaxTimestamp, d \in Digests}
    \cup {<<t, "200", d, RobotsUrl>> : t \in 1..MaxTimestamp, d \in Digests}

InitRobots ==
    /\ SessionStart
    /\ call = "process_robots_txt_changes"
    /\ arg \in SeqsUpTo(Captures, MaxCaptures)
    /\ ret = None
    /\ ret2 = None

ProcessRobotsTxtChanges ==
    /\ call = "process_robots_txt_changes"
    /\ ret' = process_robots_txt_changes(arg)
    /\ call' = "done"
    /\ UNCHANGED <<arg, ret2>>
    /\ UNCHANGED sessionVars

NextRobots == ProcessRobotsTxtChanges

SpecRobots == InitRobots /\ [][NextRobots]_vars

\* position in the arrival order of the first capture with digest d
FirstCapture(data, d) ==
    CHOOSE i \in 1..Len(data) :
        data[i][3] = d /\ \A j \in 1..i - 1 : data[j][3] # d

\* C6: process_robots_txt_changes returns exactly one version per distinct
\* digest of the captures, each with the timestamp of the first capture of
\* that digest in arrival order, and the versions are in ascending order of
\* timestamp.
C6_RobotsVersionsDeduplicated ==
    call = "done" =>
        /\ \A i \in 1..Len(arg) :
              Cardinality({k \in 1..Len(ret) : ret[k][2] = arg[i][3]}) = 1
        /\ \A k \in 1..Len(ret) :
              /\ \E i \in 1..Len(arg) : arg[i][3] = ret[k][2]
              /\ ret[k][1] = arg[FirstCapture(arg, ret[k][2])][1]
        /\ \A k \in 1..Len(ret) - 1 : ret[k][1] <= ret[k + 1][1]

\* the captures (3,dig1), (1,dig2), (2,dig1) arrive out of order and with
\* a repeated digest: two versions result, dig2 at 1 before dig1 at 3
C6_Witness ==
    /\ call = "done"
    /\ arg = <<<<3, "200", "dig1">>, <<1, "200", "dig2", RobotsUrl>>,
               <<2, "200", "dig1">>>>
    /\ ret = <<<<1, "dig2", RobotsUrl>>, <<3, "dig1", None>>>>

-----------------------------------------------------------------------------
(* get_top_changing_pages applied to a record collection *)

\* page_changes after the loop of lines 332-335, as a sequence of
\* <<url, set of digests>> in insertion order of the urls
RECURSIVE PageChanges(_)
PageChanges(urls) ==
    IF urls = << >> THEN << >>
    ELSE LET n == Len(urls)
             sofar == PageChanges(Before(urls, n))
             url == urls[n][1]
             digest == urls[n][4]
         IN IF \E k \in 1..Len(sofar) : sofar[k][1] = url
            THEN [k \in 1..Len(sofar) |->
                    IF sofar[k][1] = url
                    THEN <<url, sofar[k][2] \cup {digest}>>
                    ELSE sofar[k]]
            ELSE Append(sofar, <<url, {digest}>>)

\* page_change_counts.items() (line 337)
PageChangeCounts(urls) ==
    LET pc_ == PageChanges(urls)
    IN [k \in 1..Len(pc_) |-> <<pc_[k][1], Cardinality(pc_[k][2])>>]

\* an ascending stable sort read backwards: descending, but urls of equal
\* count come out in reverse insertion order
RECURSIVE SortedByCountAsc(_)
SortedByCountAsc(items) ==
    IF items = << >> THEN << >>
    ELSE LET n == Len(items)
             sorted == SortedByCountAsc(Before(items, n))
             x == items[n]
             k == Cardinality({i \in 1..Len(sorted) : sorted[i][2] <= x[2]})
         IN SubSeq(sorted, 1, k) \o <<x>> \o From(sorted, k + 1)

SortedAscReversed(items) ==
    LET a == SortedByCountAsc(items)
    IN [k \in 1..Len(a) |-> a[Len(a) + 1 - k]]

\* sorted(items, key=lambda x: x[1], reverse=True): stable, descending
RECURSIVE SortedByCountDesc(_)
SortedByCountDesc(items) ==
    IF items = << >> THEN << >>
    ELSE LET n == Len(items)
             sorted == SortedByCountDesc(Before(items, n))
             x == items[n]
             k == Cardinality({i \in 1..Len(sorted) : sorted[i][2] >= x[2]})
         IN SubSeq(sorted, 1, k) \o <<x>> \o From(sorted, k + 1)

get_top_changing_pages(urls, top_n) ==
    LET sorted_pages == SortedByCountDesc(PageChangeCounts(urls))
    IN SubSeq(sorted_pages, 1, Min(top_n, Len(sorted_pages)))

\* records (url, timestamp, statuscode, digest) over a few urls and digests
TopRecords ==
    {<<u, 1, "200", d>> : u \in {"A", "B", "C"}, d \in {"d1", "d2", "d3"}}

InitTop ==
    /\ SessionStart
    /\ call = "get_top_changing_pages"
    /\ arg \in [urls : SeqsUpTo(TopRecords, MaxRecords), top_n : 1..MaxTopN]
    /\ ret = None
    /\ ret2 = None

GetTopChangingPages ==
    /\ call = "get_top_changing_pages"
    /\ ret' = get_top_changing_pages(arg.urls, arg.top_n)
    /\ call' = "done"
    /\ UNCHANGED <<arg, ret2>>
    /\ UNCHANGED sessionVars

NextTop == GetTopChangingPages

SpecTop == InitTop /\ [][NextTop]_vars

\* the urls of a record collection, their distinct-digest counts and the
\* position at which each is first encountered
UrlsOf(urls) == {urls[i][1] : i \in 1..Len(urls)}
DistinctDigests(urls, u) ==
    Cardinality({urls[i][4] : i \in {j \in 1..Len(urls) : urls[j][1] = u}})
FirstSeen(urls, u) ==
    CHOOSE i \in 1..Len(urls) :
        urls[i][1] = u /\ \A j \in 1..i - 1 : urls[j][1] # u

\* url u ranks before url v: more distinct digests, or as many and first
\* encountered earlier
RanksBefore(urls, u, v) ==
    \/ DistinctDigests(urls, u) > DistinctDigests(urls, v)
    \/ /\ DistinctDigests(urls, u) = DistinctDigests(urls, v)
       /\ FirstSeen(urls, u) < FirstSeen(urls, v)

\* C8: get_top_changing_pages returns (url, count) pairs in which count is
\* the number of distinct digests observed for url, in descending order of
\* count with urls of equal count in first-encountered order, cut to the
\* first top_n pairs.
C8_TopChangingPagesRanked ==
    call = "done" =>
        /\ Len(ret) = Min(arg.top_n, Cardinality(UrlsOf(arg.urls)))
        /\ \A k \in 1..Len(ret) :
              /\ ret[k][1] \in UrlsOf(arg.urls)
              /\ ret[k][2] = DistinctDigests(arg.urls, ret[k][1])
        /\ \A k, l \in 1..Len(ret) :
              k < l => RanksBefore(arg.urls, ret[k][1], ret[l][1])
        /\ \A u \in UrlsOf(arg.urls) \ {ret[k][1] : k \in 1..Len(ret)} :
              \A k \in 1..Len(ret) : RanksBefore(arg.urls, ret[k][1], u)

\* the records (C,d1), (A,d1), (A,d2), (A,d1), (B,d3) with top_n = 2: A has
\* 2 distinct digests and comes first, C and B tie at 1 and C, encountered
\* first, is kept
C8_Witness ==
    /\ call = "done"
    /\ arg.top_n = 2
    /\ arg.urls = <<<<"C", 1, "200", "d1">>, <<"A", 1, "200", "d1">>,
                    <<"A", 1, "200", "d2">>, <<"B", 1, "200", "d3">>>>
    /\ ret = <<<<"A", 2>>, <<"C", 1>>>>

-----------------------------------------------------------------------------
(* visualize_folder_types_over_time applied to a record collection *)

\* str.lstrip('/')
RECURSIVE LStripSlash(_)
LStripSlash(s) ==
    IF s # << >> /\ s[1] = "/" THEN LStripSlash(Tail(s)) ELSE s

Root == <<"R", "o", "o", "t">>
Other == <<"O", "t", "h", "e", "r">>

\* lines 93-96 for the stripped path
FolderOfPath(path) ==
    IF path = << >> THEN Root
    ELSE <<"/">> \o SplitFirst(path, "/") \o <<"/">>

\* get_top_folder(url) for the url of a record, with parsed.path.strip('/')
\* (line 92) as the two one-sided strips
get_top_folder(url) ==
    FolderOfPath(RStripSlash(LStripSlash(urlparse(url, TRUE).value.path)))

\* the year column (lines 101-102): the first four digits of a timestamp
\* of the form %Y%m%d%H%M%S
YearOf(timestamp) == SubSeq(timestamp, 1, 4)

\* the sum of a sequence of counts (DataFrame.sum)
RECURSIVE SumOf(_)
SumOf(counts) ==
    IF counts = << >> THEN 0
    ELSE SumOf(Before(counts, Len(counts))) + counts[Len(counts)]

\* the frame after lines 100-103: per record its year and folder columns
WithYearAndFolder(urls) ==
    [i \in 1..Len(urls) |->
        [year |-> YearOf(urls[i][2]), folder |-> get_top_folder(urls[i][1])]]

\* the years and the folders of the frame: the row and column labels after
\* groupby(['year', 'folder']).size().unstack(fill_value=0)
YearsOf(df) == {df[i].year : i \in 1..Len(df)}
FoldersOf(df) == {df[i].folder : i \in 1..Len(df)}

\* the cell of year and folder: the size of the group, 0 for no group
GroupSize(df, year, folder) ==
    Cardinality({i \in 1..Len(df) : df[i].year = year /\ df[i].folder = folder})

\* the row labels in the order of sort_index (line 106)
YearIndex(df) ==
    CHOOSE ix \in [1..Cardinality(YearsOf(df)) -> YearsOf(df)] :
        \A i, j \in 1..Cardinality(YearsOf(df)) :
            i < j => DecimalValue(ix[i]) < DecimalValue(ix[j])

\* df_grouped.sum() (line 107): the total of a column over the years
FolderTotal(df, folder) ==
    SumOf([k \in 1..Len(YearIndex(df)) |-> GroupSize(df, YearIndex(df)[k], folder)])

\* the orders sort_values(ascending=False) can put the columns in: by
\* descending total; the sort is not stable, so columns of equal total come
\* in any order
DescendingOrders(df) ==
    {order \in [1..Cardinality(FoldersOf(df)) -> FoldersOf(df)] :
        /\ \A i, j \in 1..Cardinality(FoldersOf(df)) : i # j => order[i] # order[j]
        /\ \A i, j \in 1..Cardinality(FoldersOf(df)) :
              i < j => FolderTotal(df, order[i]) >= FolderTotal(df, order[j])}

\* a cap that keeps the columns of smallest total
SmallestFolders(folder_totals, n) ==
    From(folder_totals, Len(folder_totals) - Min(n, Len(folder_totals)) + 1)

\* folder_totals.nlargest(n).index (line 110) on the sorted totals
TopFolders(folder_totals, n) ==
    SubSeq(folder_totals, 1, Min(n, Len(folder_totals)))

\* the columns of order that are not among top_folders (line 111)
NotIn(order, top_folders) ==
    SelectSeq(order, LAMBDA f : \A k \in 1..Len(top_folders) : top_folders[k] # f)

\* the cell of the 'Other' column for a year: the row sum of the columns
\* that are not among top_folders (line 111)
OtherCell(df, year, rest) ==
    SumOf([k \in 1..Len(rest) |-> GroupSize(df, year, rest[k])])

\* the table of line 112 for the column order of line 108 and its top
\* folders
FolderTable(df, order, top_folders) ==
    [index |-> YearIndex(df),
     columns |-> top_folders \o <<Other>>,
     cell |-> [year \in YearsOf(df) |->
                 [c \in {top_folders[k] : k \in 1..Len(top_folders)} \cup {Other} |->
                     IF c = Other THEN OtherCell(df, year, NotIn(order, top_folders))
                     ELSE GroupSize(df, year, c)]]]

\* df_grouped as the chart gets it (lines 104-112), for the frame of lines
\* 100-103 and the column order the sort of line 107 produced
visualize_folder_types_over_time(df, order, top_folders_count) ==
    FolderTable(df, order, TopFolders(order, top_folders_count))

\* largest record collection and cap given to the function
MaxFolderRecords == 4
MaxFolderCap == 2

\* records with urls of no path, of a file in /x/ and of /b/ between
\* doubled slashes, captured at times in two years
FolderRecords ==
    {<<u, t, "200", "dig1">> :
        u \in {http \o SchemeSep \o <<"a">>,
               http \o SchemeSep \o <<"a", "/", "x", "/", "p">>,
               http \o SchemeSep \o <<"a", "/", "/", "b", "/", "/">>},
        t \in {<<"2", "0", "0", "1", "0", "2", "0", "3", "0", "4", "0", "5", "0", "6">>,
               <<"2", "0", "0", "2", "1", "1", "3", "0", "2", "3", "5", "9", "5", "9">>}}

\* the collection is session_state.unique_urls of a session that shows
\* results, so it is not empty
InitFolders ==
    /\ SessionStart
    /\ call = "visualize_folder_types_over_time"
    /\ arg \in [urls : SeqsUpTo(FolderRecords, MaxFolderRecords) \ {<< >>},
                top_folders_count : 1..MaxFolderCap]
    /\ ret = None
    /\ ret2 = None

VisualizeFolders ==
    /\ call = "visualize_folder_types_over_time"
    /\ LET df == WithYearAndFolder(arg.urls)
       IN \E order \in DescendingOrders(df) :
             ret' = visualize_folder_types_over_time(df, order, arg.top_folders_count)
    /\ call' = "done"
    /\ UNCHANGED <<arg, ret2>>
    /\ UNCHANGED sessionVars

NextFolders == VisualizeFolders

SpecFolders == InitFolders /\ [][NextFolders]_vars

\* the folder keys among the columns of the table
ShownKeys == {ret.columns[k] : k \in 1..Len(ret.columns) - 1}

\* the records of a year, and the records of a folder key, in the frame df
\* of the collection
RecordsIn(df, year) == {i \in 1..Len(df) : df[i].year = year}
RecordsOfKey(df, f) == {i \in 1..Len(df) : df[i].folder = f}

\* the table ret is the one C12 describes for the frame df and cap n
TopAndOtherOf(df, n) ==
    /\ Len(ret.columns) = Min(n, Cardinality(FoldersOf(df))) + 1
    /\ ret.columns[Len(ret.columns)] = Other
    /\ Cardinality(ShownKeys) = Len(ret.columns) - 1
    /\ ShownKeys \subseteq FoldersOf(df)
    /\ \A f \in ShownKeys : \A g \in FoldersOf(df) \ ShownKeys :
          Cardinality(RecordsOfKey(df, f)) >= Cardinality(RecordsOfKey(df, g))
    /\ {ret.index[k] : k \in 1..Len(ret.index)} = YearsOf(df)
    /\ \A k \in 1..Len(ret.index) :
          /\ \A f \in ShownKeys :
                ret.cell[ret.index[k]][f]
                   = Cardinality(RecordsIn(df, ret.index[k]) \cap RecordsOfKey(df, f))
          /\ ret.cell[ret.index[k]][Other]
                = Cardinality({i \in RecordsIn(df, ret.index[k]) :
                                  df[i].folder \notin ShownKeys})
          /\ SumOf([c \in 1..Len(ret.columns) |-> ret.cell[ret.index[k]][ret.columns[c]]])
                = Cardinality(RecordsIn(df, ret.index[k]))

\* C12: the table has as columns the N folder keys of largest total count
\* (all keys when there are no more than N) followed by one 'Other' column;
\* per year, 'Other' holds the number of records whose key is not among
\* those N, every other column the number of records of its key, and the
\* row total equals the number of records captured in that year.
C12_TopFoldersAndOther ==
    call = "done" =>
        TopAndOtherOf(WithYearAndFolder(arg.urls), arg.top_folders_count)

\* four records in two years over the keys /x/ (twice), Root and /b/ with
\* cap 1: /x/ is shown, and 'Other' holds Root in 2001 and /b/ in 2002
C12_Witness ==
    /\ call = "done"
    /\ arg.top_folders_count = 1
    /\ Len(arg.urls) = 4
    /\ Cardinality(FoldersOf(WithYearAndFolder(arg.urls))) = 3
    /\ Cardinality(YearsOf(WithYearAndFolder(arg.urls))) = 2
    /\ ret.columns = <<<<"/", "x", "/">>, Other>>
    /\ \A k \in 1..2 : ret.cell[ret.index[k]][Other] = 1
    /\ \A k \in 1..2 : ret.cell[ret.index[k]][<<"/", "x", "/">>] = 1

-----------------------------------------------------------------------------
(* apply_filter applied to the url of a record (Download URLs tab) *)

\* the options of the filter radio (lines 568-571)
FilterAll == "All (HTML, Images, CSS, JS, etc.)"
FilterHtml == "HTML only"
FilterHtmlImages == "HTML + Images"
FilterOptions == {FilterAll, FilterHtml, FilterHtmlImages}

\* the suffix tuples of lines 584 and 586
HtmlSuffixes ==
    {<<".", "h", "t", "m", "l">>, <<".", "h", "t", "m">>, <<"/">>}
ImageSuffixes ==
    {<<".", "j", "p", "g">>, <<".", "j", "p", "e", "g">>, <<".", "p", "n", "g">>,
     <<".", "g", "i", "f">>, <<".", "s", "v", "g">>}
RobotsTxt == <<"r", "o", "b", "o", "t", "s", ".", "t", "x", "t">>

\* url.endswith(tuple): true if url ends with any member
EndsWithAny(url, suffixes) == \E suffix \in suffixes : EndsWith(url, suffix)

\* a filter in which 'HTML only' has no robots.txt clause
apply_filter_without_robots(url, option) ==
    IF option = FilterAll THEN TRUE
    ELSE IF option = FilterHtml THEN EndsWithAny(url, HtmlSuffixes)
    ELSE EndsWithAny(url, HtmlSuffixes \cup ImageSuffixes) \/ EndsWith(url, RobotsTxt)

\* apply_filter(url, option) for an option of the radio (lines 580-587)
apply_filter(url, option) ==
    IF option = FilterAll THEN TRUE
    ELSE IF option = FilterHtml
    THEN EndsWithAny(url, HtmlSuffixes) \/ EndsWith(url, RobotsTxt)
    ELSE EndsWithAny(url, HtmlSuffixes \cup ImageSuffixes) \/ EndsWith(url, RobotsTxt)

\* longest free-form url ending given to apply_filter
MaxEndingLen == 4

\* urls given to apply_filter: a stem followed by any short text over the
\* characters of the html suffixes, or by one of the endings that matter
NamedEndings ==
    ImageSuffixes
    \cup {RobotsTxt, <<"/">> \o RobotsTxt, <<"x">> \o RobotsTxt, RobotsTxt \o <<"/">>,
          RobotsTxt \o <<"?", "a">>,
          <<".", "j", "s", "o", "n">>, <<".", "x", "m", "l">>, <<".", "t", "x", "t">>,
          <<".", "c", "s", "s">>, <<".", "j", "s">>, <<".", "H", "T", "M", "L">>,
          <<".", "h", "t", "m", "l", "?", "a">>, <<".", "p", "n", "g", "#", "a">>,
          <<".", "j", "p", "g", "x">>, <<"j", "p", "g">>}
FilterUrls ==
    {stem \o ending :
        stem \in {<<"a">>, <<"a", "/", "b">>},
        ending \in SeqsUpTo({".", "h", "t", "m", "l", "/"}, MaxEndingLen) \cup NamedEndings}

InitFilter ==
    /\ SessionStart
    /\ call = "apply_filter"
    /\ arg \in [url : FilterUrls, option : FilterOptions]
    /\ ret = None
    /\ ret2 = None

ApplyFilter ==
    /\ call = "apply_filter"
    /\ ret' = Returned(apply_filter(arg.url, arg.option))
    /\ call' = "done"
    /\ UNCHANGED <<arg, ret2>>
    /\ UNCHANGED sessionVars

NextFilter == ApplyFilter

SpecFilter == InitFilter /\ [][NextFilter]_vars

\* the last n characters of url are the text s
LastAre(url, n, s) == Len(url) >= n /\ [i \in 1..n |-> url[Len(url) - n + i]] = s

\* url ends like a page: in '.html', '.htm', '/' or 'robots.txt'
EndsLikePage(url) ==
    \/ LastAre(url, 5, <<".", "h", "t", "m", "l">>)
    \/ LastAre(url, 4, <<".", "h", "t", "m">>)
    \/ LastAre(url, 1, <<"/">>)
    \/ LastAre(url, 10, RobotsTxt)

\* url ends like an image: in .jpg, .jpeg, .png, .gif or .svg
EndsLikeImage(url) ==
    \/ LastAre(url, 4, <<".", "j", "p", "g">>)
    \/ LastAre(url, 5, <<".", "j", "p", "e", "g">>)
    \/ LastAre(url, 4, <<".", "p", "n", "g">>)
    \/ LastAre(url, 4, <<".", "g", "i", "f">>)
    \/ LastAre(url, 4, <<".", "s", "v", "g">>)

\* C13: with 'HTML only' apply_filter retains a url exactly when it ends in
\* '.html', '.htm', '/' or 'robots.txt'; with 'HTML + Images' exactly when
\* it does or ends in .jpg, .jpeg, .png, .gif or .svg; with 'All' always.
C13_FilterRetainsBySuffix ==
    call = "done" =>
        /\ ~ret.raised
        /\ arg.option = FilterHtml => (ret.value <=> EndsLikePage(arg.url))
        /\ arg.option = FilterHtmlImages
              => (ret.value <=> (EndsLikePage(arg.url) \/ EndsLikeImage(arg.url)))
        /\ arg.option = FilterAll => ret.value

\* 'HTML only' has retained a url ending in robots.txt
C13_Witness ==
    /\ call = "done"
    /\ arg.option = FilterHtml
    /\ arg.url = <<"a", "/">> \o RobotsTxt
    /\ ret.value

-----------------------------------------------------------------------------
(* The export of the Download URLs tab (lines 590-604) *)

\* line 591: the records whose url passes the filter, in their order
FilteredUrls(urls, option) ==
    SelectSeq(urls, LAMBDA rec : apply_filter(rec[1], option))

\* the loop of lines 596-598 without the "url not in unique_urls" test: a
\* later record of a url replaces the one kept
RECURSIVE UniqueLastSeen(_)
UniqueLastSeen(filtered_urls) ==
    IF filtered_urls = << >> THEN << >>
    ELSE LET n == Len(filtered_urls)
             sofar == UniqueLastSeen(Before(filtered_urls, n))
             rec == filtered_urls[n]
         IN IF \E k \in 1..Len(sofar) : sofar[k][1] = rec[1]
            THEN [k \in 1..Len(sofar) |-> IF sofar[k][1] = rec[1] THEN rec ELSE sofar[k]]
            ELSE Append(sofar, rec)

\* lines 595-599: the values of the dict unique_urls in insertion order; a
\* url already present keeps its record
RECURSIVE UniqueFirstSeen(_)
UniqueFirstSeen(filtered_urls) ==
    IF filtered_urls = << >> THEN << >>
    ELSE LET n == Len(filtered_urls)
             sofar == UniqueFirstSeen(Before(filtered_urls, n))
             rec == filtered_urls[n]
         IN IF \E k \in 1..Len(sofar) : sofar[k][1] = rec[1]
            THEN sofar
            ELSE Append(sofar, rec)

\* lines 591-599: the records that are exported
Retained(urls, option, unique_only) ==
    IF unique_only THEN UniqueFirstSeen(FilteredUrls(urls, option))
    ELSE FilteredUrls(urls, option)

\* f"{url},{timestamp},{statuscode},{digest}" (line 604)
CsvRow(rec) == rec[1] \o <<",">> \o rec[2] \o <<",">> \o rec[3] \o <<",">> \o rec[4]

\* "\n".join(rows)
RECURSIVE JoinLines(_)
JoinLines(rows) ==
    IF rows = << >> THEN << >>
    ELSE IF Len(rows) = 1 THEN rows[1]
    ELSE JoinLines(Before(rows, Len(rows))) \o <<"\n">> \o rows[Len(rows)]

\* the header text of line 602, without its newline
CsvHeader ==
    <<"U", "R", "L", ",", "T", "i", "m", "e", "s", "t", "a", "m", "p", ",", "S", "t", "a", "t", "u", "s", " ", "C", "o", "d", "e", ",", "D", "i", "g", "e", "s", "t">>

\* csv_content (lines 602-604)
CsvContent(filtered_urls) ==
    CsvHeader \o <<"\n">>
    \o JoinLines([k \in 1..Len(filtered_urls) |-> CsvRow(filtered_urls[k])])

\* most records in session_state.unique_urls when the tab is shown
MaxExportRecords == 3

\* records to export: a page, an image, a script and a page with a comma in
\* its query, each captured at two times
ExportRecords ==
    {<<u, t, <<"2", "0", "0">>, <<"d">>>> :
        u \in {<<"a", "/">>, <<"a", ".", "p", "n", "g">>, <<"a", ".", "j", "s">>,
               <<"a", "?", "1", ",", "2", "/">>},
        t \in {<<"1">>, <<"2">>}}

\* the tab is shown for a session with records; the radio and the checkbox
\* are as the user set them
InitExport ==
    /\ SessionStart
    /\ call = "export"
    /\ arg \in [urls : SeqsUpTo(ExportRecords, MaxExportRecords) \ {<< >>},
                filter_option : FilterOptions,
                unique_only : BOOLEAN]
    /\ ret = None
    /\ ret2 = None

\* lines 590-604
Export ==
    /\ call = "export"
    /\ ret' = [filtered_urls |-> Retained(arg.urls, arg.filter_option, arg.unique_only),
               csv_content |->
                   CsvContent(Retained(arg.urls, arg.filter_option, arg.unique_only))]
    /\ call' = "done"
    /\ UNCHANGED <<arg, ret2>>
    /\ UNCHANGED sessionVars

NextExport == Export

SpecExport == InitExport /\ [][NextExport]_vars

\* the lines of a text, as a CSV reader takes them: a newline ends a line
RECURSIVE LinesOf(_)
LinesOf(text) ==
    IF text = << >> THEN << >>
    ELSE IF Contains(text, "\n")
    THEN <<SplitFirst(text, "\n")>> \o LinesOf(AfterFirst(text, "\n"))
    ELSE <<text>>

\* the records of the collection that pass the filter, by position
Passing == {i \in 1..Len(arg.urls) : apply_filter(arg.urls[i][1], arg.filter_option)}

\* the passing record at position i is the first one with its url
IsFirstSeen(i) == \A j \in Passing : j < i => arg.urls[j][1] # arg.urls[i][1]

\* the exported records are the passing records at the positions pos, in
\* that order
ExportedAt(pos) ==
    /\ Len(ret.filtered_urls) = Len(pos)
    /\ \A k \in 1..Len(pos) : ret.filtered_urls[k] = arg.urls[pos[k]]
    /\ \A k \in 1..Len(pos) - 1 : pos[k] < pos[k + 1]

\* C14: with 'unique URLs only' the exported records are exactly the
\* first-seen record of each distinct url among the filtered records, in
\* first-seen order; the CSV is the header 'URL,Timestamp,Status
\* Code,Digest' followed by exactly one row per exported record.
C14_UniqueExportFirstSeen ==
    call = "done" =>
        /\ arg.unique_only =>
              \E pos \in [1..Cardinality({i \in Passing : IsFirstSeen(i)})
                            -> {i \in Passing : IsFirstSeen(i)}] : ExportedAt(pos)
        /\ LinesOf(ret.csv_content)[1] = CsvHeader
        /\ Len(LinesOf(ret.csv_content)) = 1 + Len(ret.filtered_urls)
        /\ \A k \in 1..Len(ret.filtered_urls) :
              LinesOf(ret.csv_content)[k + 1] = CsvRow(ret.filtered_urls[k])

\* the page a/ captured at 1, the image, then a/ captured at 2, exported
\* with 'HTML only' and unique urls: one row, for a/ at 1
C14_Witness ==
    /\ call = "done"
    /\ arg.unique_only
    /\ arg.filter_option = FilterHtml
    /\ arg.urls = <<<<<<"a", "/">>, <<"1">>, <<"2", "0", "0">>, <<"d">>>>,
                    <<<<"a", ".", "p", "n", "g">>, <<"1">>, <<"2", "0", "0">>, <<"d">>>>,
                    <<<<"a", "/">>, <<"2">>, <<"2", "0", "0">>, <<"d">>>>>>
    /\ ret.filtered_urls = <<<<<<"a", "/">>, <<"1">>, <<"2", "0", "0">>, <<"d">>>>>>
    /\ LinesOf(ret.csv_content)
          = <<CsvHeader, <<"a", "/", ",", "1", ",", "2", "0", "0", ",", "d">>>>

====
